---- MODULE Spec2Model ----
(***************************************************************************)
(* Step-response analysis of Analysis.py: the loop over the red line       *)
(* events, the slicing of the angle trace into one window per 'Created'    *)
(* event, the six-step click/skip sequence driven by the two matplotlib    *)
(* callbacks, and the report printed when the chart is closed.             *)
(*                                                                         *)
(* Conventions.  Timestamps and coordinates are integers.  A Python value  *)
(* that may be None is a tuple: None is << >>, the number v is <<v>>.  A   *)
(* Python list is a sequence of such tuples.  A quotient is kept exact as  *)
(* the pair <<numerator, denominator>>; a zero denominator is the          *)
(* non-finite float numpy returns for a division by zero.                  *)
(***************************************************************************)
EXTENDS Integers, Sequences, FiniteSets

VARIABLES
    angle_data,                \* rows of angle_data.csv, with their row index
    red_line_data,             \* rows of red_line_events.csv
    i,                         \* index of the for loop (0-based, as enumerate)
    event_counter,
    action_counter,
    rise_time_start,
    rise_time_end,
    settling_time_end,
    overshoot,
    steady_state_error_start,
    steady_state_error_end,
    target_angle,
    start_time,
    end_time,
    filtered_angle_data,
    starting_angle,
    tenperline,                \* the four dashed lines
    ninperline,
    five_percent_above,
    five_percent_below,
    rise_time_value,
    settling_time_value,
    overshoot_percent,
    steady_state_error_value,
    title,                     \* caption of the current figure
    stdout,                    \* the report blocks printed so far: kind and ordinal
    windows,                   \* filtered_angle_data of every 'Created' iteration so far
    pc,                        \* "loop", "show", "done" or "crashed"
    red_line_angle,            \* AngleGraphic.py: the red line shown, or None
    input_buffer,              \* AngleGraphic.py: the digits typed since the last RETURN
    red_line_file,             \* AngleGraphic.py: the rows written to red_line_events.csv
    running                    \* AngleGraphic.py: the logger has not quit

slots == <<rise_time_start, rise_time_end, settling_time_end,
           overshoot, steady_state_error_start, steady_state_error_end>>

vars == <<angle_data, red_line_data, i, event_counter, action_counter,
          rise_time_start, rise_time_end, settling_time_end, overshoot,
          steady_state_error_start, steady_state_error_end,
          target_angle, start_time, end_time, filtered_angle_data,
          starting_angle, rise_time_value, settling_time_value, overshoot_percent,
          steady_state_error_value, title, stdout, windows, pc,
          tenperline, ninperline, five_percent_above, five_percent_below,
          red_line_angle, input_buffer, red_line_file, running>>

analysis ==
    <<angle_data, red_line_data, i, event_counter, action_counter,
      rise_time_start, rise_time_end, settling_time_end, overshoot,
      steady_state_error_start, steady_state_error_end,
      target_angle, start_time, end_time, filtered_angle_data, starting_angle,
      rise_time_value, settling_time_value, overshoot_percent,
      steady_state_error_value, title, stdout, windows, pc,
      tenperline, ninperline, five_percent_above, five_percent_below>>

lines == <<tenperline, ninperline, five_percent_above, five_percent_below>>

logger == <<red_line_angle, input_buffer, red_line_file, running>>

metrics == <<rise_time_value, settling_time_value, overshoot_percent,
             steady_state_error_value>>

-----------------------------------------------------------------------------
(* Bounds of the model *)

MaxEvents == 3
MaxTime == 2
MaxActions == 7

-----------------------------------------------------------------------------
(* Values *)

None == << >>

Some(v) == <<v>>

IsNone(v) == v = None

Abs(n) == IF n < 0 THEN -n ELSE n

Times == 0 .. MaxTime

\* the angles the logger can write lie in [ANGLE_MIN, ANGLE_MAX]
ANGLE_MIN == 40

ANGLE_MAX == 140

\* An angle is a binary64.  The model counts angles in quanta, the spacing
\* between adjacent floats at the angles of a run, so that the sum of two
\* angles is again a whole number of quanta, rounded when it is not; 20 quanta
\* stand for one degree.
Degrees(d) == 20 * d

TargetAngles == {Degrees(90)}

SampleAngles == {Degrees(ANGLE_MIN)}

Event(ts, angle, kind) == [Timestamp |-> ts, Red_Line_Angle |-> angle, Event_Type |-> kind]

\* a row the logger writes: 'Created' with its angle, or 'Removed' with none
EventRows ==
    {Event(ts, Some(a), "Created") : ts \in Times, a \in TargetAngles}
        \cup {Event(ts, None, "Removed") : ts \in Times}

SeqsUpTo(S, n) == UNION {[1 .. k -> S] : k \in 0 .. n}

Increasing(s) == \A k \in 1 .. Len(s) - 1 : s[k].Timestamp < s[k + 1].Timestamp

\* both files are written row after row, each row stamped with datetime.now()
EventLogs == {s \in SeqsUpTo(EventRows, MaxEvents) : Increasing(s)}

SampleRows == [Timestamp : Times, Current_Angle : SampleAngles]

WithIndex(s) ==
    [k \in 1 .. Len(s) |->
        [idx |-> k - 1, Timestamp |-> s[k].Timestamp, Current_Angle |-> s[k].Current_Angle]]

AngleTraces ==
    {WithIndex(s) : s \in {t \in SeqsUpTo(SampleRows, MaxTime + 1) : Increasing(t)}}

\* a mouse click: inside the axes it carries data coordinates, outside the
\* axes matplotlib sets xdata and ydata to None
InsideClicks == {[xdata |-> Some(1), ydata |-> Some(Degrees(95))]}

OutsideClick == [xdata |-> None, ydata |-> None]

Clicks == InsideClicks \cup {OutsideClick}

Keys == {"x", "a"}

\* what Series < None does depends on the pandas release: it raises
\* TypeError, or it compares as NaT and is False on every row
NoneComparisons == {"TypeError", "AllFalse"}

-----------------------------------------------------------------------------
(* Initial state *)

\* AngleGraphic.py at start: no red line, an empty buffer, the header row only
LoggerStart ==
    /\ red_line_angle = None
    /\ input_buffer = << >>
    /\ red_line_file = << >>
    /\ running = TRUE

\* Analysis.py before its loop, on the two files given
AnalysisStart(angles, events) ==
    /\ angle_data = angles
    /\ red_line_data = events
    /\ i = 0
    /\ event_counter = 0
    \* the names below are unbound until the first 'Created' iteration binds
    \* them; nothing reads them before that
    /\ action_counter = 0
    /\ rise_time_start = << >>
    /\ rise_time_end = << >>
    /\ settling_time_end = << >>
    /\ overshoot = << >>
    /\ steady_state_error_start = << >>
    /\ steady_state_error_end = << >>
    /\ target_angle = None
    /\ start_time = None
    /\ end_time = None
    /\ filtered_angle_data = << >>
    /\ starting_angle = None
    /\ tenperline = None
    /\ ninperline = None
    /\ five_percent_above = None
    /\ five_percent_below = None
    /\ rise_time_value = None
    /\ settling_time_value = None
    /\ overshoot_percent = None
    /\ steady_state_error_value = None
    /\ title = ""
    /\ stdout = << >>
    /\ windows = << >>
    /\ pc = "loop"

Init ==
    /\ \E angles \in AngleTraces, events \in EventLogs : AnalysisStart(angles, events)
    /\ LoggerStart

-----------------------------------------------------------------------------
(* The event loop: segmentation *)

\* the mask with the upper comparison written <= instead of <
InWindowClosed(t, start, end) == (t >= start) /\ (t <= end)

\* the boolean mask of line 124 on one row
InWindow(t, start, end) == (t >= start) /\ (t < end)

\* angle_data[mask]: the rows the mask keeps, in their order, with their index
FilterRows(rows, start, end) ==
    LET Keep(r) == InWindow(r.Timestamp, start, end)
    IN  SelectSeq(rows, Keep)

\* end_time taken from the next 'Created' row instead of the next row
EndTimeNextCreated(k) ==
    LET later == {j \in k + 2 .. Len(red_line_data) :
                     red_line_data[j].Event_Type = "Created"}
    IN  IF later = {} THEN None
        ELSE Some(red_line_data[CHOOSE j \in later : \A m \in later : j <= m].Timestamp)

\* end_time of the event at 0-based index k
EndTime(k) ==
    IF k < Len(red_line_data) - 1 THEN Some(red_line_data[k + 2].Timestamp) ELSE None

\* a report block: "skip" is line 128, "header" is line 169 alone (the run
\* faulted before line 178), "metrics" is lines 169-186, whose eight metric
\* lines print the four variables of lines 172-175
Block(kind, ordinal) == [kind |-> kind, ordinal |-> ordinal]

SkipBlock(ordinal) == Block("skip", ordinal)

\* the skip taken without printing the diagnostic
EmitSkipSilent(out, ordinal) == out

\* the diagnostic printed with the counter's value before line 120
EmitSkipStaleOrdinal(out, ordinal) == Append(out, SkipBlock(ordinal - 1))

\* print(f'Red Line Event {event_counter} - Data is empty. Skipping this event.')
EmitSkip(out, ordinal) == Append(out, SkipBlock(ordinal))

\* the list of the previous window stays bound to the name
RebindKept(old) == old

\* a name bound to a new empty list
Rebind(old) == << >>

\* the ordinal is the number of the row in the log
NextOrdinalOfRow(c) == i + 1

\* event_counter += 1
NextOrdinal(c) == c + 1

\* angle_diff = abs(starting_angle - target_angle)
AngleDiff(start, target) == Abs(start - target)

\* the offset is added whatever the direction of the step
TowardUp(start, target, x) == x

\* x if target_angle > starting_angle else -x
Toward(start, target, x) == IF target > start THEN x ELSE -x

\* the whole numbers nearest to n / d: the float a sum is rounded to.  On a
\* tie the outcome depends on the low bits of the operands, and both
\* neighbours are kept.
Nearest(n, d) ==
    LET q == n \div d
        r == n % d
    IN  IF 2 * r < d THEN {q}
        ELSE IF 2 * r > d THEN {q + 1}
        ELSE {q, q + 1}

\* The offsets angle_diff * 0.1, * 0.9 and * 0.05 are small against the
\* angles and are floats of a finer spacing; it is the sum with
\* starting_angle or target_angle that is rounded to a whole number of quanta.
TenPerLine(start, target) ==
    Nearest(10 * start + Toward(start, target, AngleDiff(start, target)), 10)

NinPerLine(start, target) ==
    Nearest(10 * start + Toward(start, target, 9 * AngleDiff(start, target)), 10)

FivePercentAbove(start, target) ==
    Nearest(20 * target + Toward(start, target, AngleDiff(start, target)), 20)

FivePercentBelow(start, target) ==
    Nearest(20 * target - Toward(start, target, AngleDiff(start, target)), 20)

\* an iteration on a row that is not 'Created': the body does nothing
for_removed ==
    /\ pc = "loop"
    /\ i < Len(red_line_data)
    /\ red_line_data[i + 1].Event_Type # "Created"
    /\ i' = i + 1
    /\ UNCHANGED <<angle_data, red_line_data, event_counter, action_counter, slots,
                   target_angle, start_time, end_time, filtered_angle_data,
                   starting_angle, metrics, title, stdout, windows, pc>>
    /\ UNCHANGED <<lines, logger>>

\* an iteration on a 'Created' row, up to continue, plt.show() or the fault
for_created(cmp) ==
    /\ pc = "loop"
    /\ i < Len(red_line_data)
    /\ red_line_data[i + 1].Event_Type = "Created"
    /\ action_counter' = 0
    /\ rise_time_start' = Rebind(rise_time_start)
    /\ rise_time_end' = Rebind(rise_time_end)
    /\ settling_time_end' = Rebind(settling_time_end)
    /\ overshoot' = Rebind(overshoot)
    /\ steady_state_error_start' = Rebind(steady_state_error_start)
    /\ steady_state_error_end' = Rebind(steady_state_error_end)
    /\ event_counter' = NextOrdinal(event_counter)
    /\ target_angle' = red_line_data[i + 1].Red_Line_Angle
    /\ start_time' = Some(red_line_data[i + 1].Timestamp)
    /\ end_time' = EndTime(i)
    /\ IF IsNone(EndTime(i)) /\ cmp = "TypeError"
       THEN \* Timestamp < None raises
            /\ pc' = "crashed"
            /\ UNCHANGED <<i, filtered_angle_data, starting_angle, lines, title, stdout,
                           windows>>
       ELSE LET rows == IF IsNone(EndTime(i))
                        THEN << >>   \* Timestamp < None is False on every row
                        ELSE FilterRows(angle_data, red_line_data[i + 1].Timestamp,
                                        EndTime(i)[1])
            IN  /\ filtered_angle_data' = rows
                /\ windows' = Append(windows, [ordinal |-> NextOrdinal(event_counter),
                                               event |-> i, rows |-> rows])
                /\ IF rows = << >>
                   THEN /\ stdout' = EmitSkip(stdout, NextOrdinal(event_counter))
                        /\ i' = i + 1
                        /\ pc' = "loop"
                        /\ UNCHANGED <<starting_angle, lines, title>>
                   ELSE /\ starting_angle' = Some(rows[1].Current_Angle)
                        /\ \E v \in TenPerLine(rows[1].Current_Angle,
                                              red_line_data[i + 1].Red_Line_Angle[1]) :
                              tenperline' = Some(v)
                        /\ \E v \in NinPerLine(rows[1].Current_Angle,
                                              red_line_data[i + 1].Red_Line_Angle[1]) :
                              ninperline' = Some(v)
                        /\ \E v \in FivePercentAbove(rows[1].Current_Angle,
                                                    red_line_data[i + 1].Red_Line_Angle[1]) :
                              five_percent_above' = Some(v)
                        /\ \E v \in FivePercentBelow(rows[1].Current_Angle,
                                                    red_line_data[i + 1].Red_Line_Angle[1]) :
                              five_percent_below' = Some(v)
                        /\ title' = "Click on start rise time, click 'x' to skip"
                        /\ pc' = "show"
                        /\ UNCHANGED <<i, stdout>>
    /\ UNCHANGED <<angle_data, red_line_data, metrics, logger>>

\* the for loop is exhausted: the script ends
for_exit ==
    /\ pc = "loop"
    /\ i = Len(red_line_data)
    /\ pc' = "done"
    /\ UNCHANGED <<angle_data, red_line_data, i, event_counter, action_counter, slots,
                   target_angle, start_time, end_time, filtered_angle_data,
                   starting_angle, metrics, title, stdout, windows>>
    /\ UNCHANGED <<lines, logger>>

-----------------------------------------------------------------------------
(* The interaction: the two callbacks connected to the figure *)

\* the counter kept inside the six positions by wrapping
AdvanceWrapSix(c) == (c + 1) % 6

\* the counter kept inside 0..6 by wrapping
AdvanceWrapSeven(c) == (c + 1) % 7

\* action_counter += 1
Advance(c) == c + 1

\* every branch reading event.xdata
CoordinateAlwaysX(event, c) == event.xdata

\* the coordinate onclick stores at position c: xdata for the three time
\* slots, ydata for the three angle slots
Coordinate(event, c) == IF c <= 2 THEN event.xdata ELSE event.ydata

\* a skip that appends nothing
CommitUnlessNone(list, value) == IF value = None THEN list ELSE Append(list, value)

\* list.append(value)
Commit(list, value) == Append(list, value)

\* button_press_event
onclick(event) ==
    /\ pc = "show"
    /\ action_counter < MaxActions
    /\ IF action_counter = 0
       THEN /\ title' = "Click on end rise time"
            /\ rise_time_start' = Commit(rise_time_start, Coordinate(event, 0))
            /\ UNCHANGED <<rise_time_end, settling_time_end, overshoot,
                           steady_state_error_start, steady_state_error_end>>
       ELSE IF action_counter = 1
       THEN /\ title' = "Click on end settling time"
            /\ rise_time_end' = Commit(rise_time_end, Coordinate(event, 1))
            /\ UNCHANGED <<rise_time_start, settling_time_end, overshoot,
                           steady_state_error_start, steady_state_error_end>>
       ELSE IF action_counter = 2
       THEN /\ title' = "Click on peak overshoot/undershoot"
            /\ settling_time_end' = Commit(settling_time_end, Coordinate(event, 2))
            /\ UNCHANGED <<rise_time_start, rise_time_end, overshoot,
                           steady_state_error_start, steady_state_error_end>>
       ELSE IF action_counter = 3
       THEN /\ title' = "Click on steady state error start"
            /\ overshoot' = Commit(overshoot, Coordinate(event, 3))
            /\ UNCHANGED <<rise_time_start, rise_time_end, settling_time_end,
                           steady_state_error_start, steady_state_error_end>>
       ELSE IF action_counter = 4
       THEN /\ title' = "Click on steady state error end"
            /\ steady_state_error_start' = Commit(steady_state_error_start, Coordinate(event, 4))
            /\ UNCHANGED <<rise_time_start, rise_time_end, settling_time_end,
                           overshoot, steady_state_error_end>>
       ELSE IF action_counter = 5
       THEN /\ title' = "Clicking is done!"
            /\ steady_state_error_end' = Commit(steady_state_error_end, Coordinate(event, 5))
            /\ UNCHANGED <<rise_time_start, rise_time_end, settling_time_end,
                           overshoot, steady_state_error_start>>
       ELSE UNCHANGED <<title, slots>>
    /\ action_counter' = Advance(action_counter)
    /\ UNCHANGED <<angle_data, red_line_data, i, event_counter, target_angle, start_time,
                   end_time, filtered_angle_data, starting_angle, metrics, stdout,
                   windows, pc>>
    /\ UNCHANGED <<lines, logger>>

\* every key skips
IsSkipKeyAny(key) == TRUE

\* event.key == 'x'
IsSkipKey(key) == key = "x"

\* key_press_event
on_key(key) ==
    /\ pc = "show"
    /\ action_counter < MaxActions
    /\ IF IsSkipKey(key)
       THEN /\ IF action_counter = 0
               THEN /\ rise_time_start' = Commit(rise_time_start, None)
                    /\ title' = "Skipped! Click on rise time end"
                    /\ UNCHANGED <<rise_time_end, settling_time_end, overshoot,
                                   steady_state_error_start, steady_state_error_end>>
               ELSE IF action_counter = 1
               THEN /\ rise_time_end' = Commit(rise_time_end, None)
                    /\ title' = "Skipped! Click on settling time end"
                    /\ UNCHANGED <<rise_time_start, settling_time_end, overshoot,
                                   steady_state_error_start, steady_state_error_end>>
               ELSE IF action_counter = 2
               THEN /\ settling_time_end' = Commit(settling_time_end, None)
                    /\ title' = "Skipped! Click on overshoot/undershoot peak"
                    /\ UNCHANGED <<rise_time_start, rise_time_end, overshoot,
                                   steady_state_error_start, steady_state_error_end>>
               ELSE IF action_counter = 3
               THEN /\ overshoot' = Commit(overshoot, None)
                    /\ title' = "Skipped! Click on steady state start"
                    /\ UNCHANGED <<rise_time_start, rise_time_end, settling_time_end,
                                   steady_state_error_start, steady_state_error_end>>
               ELSE IF action_counter = 4
               THEN /\ steady_state_error_start' = Commit(steady_state_error_start, None)
                    /\ title' = "Skipped! Click on steady state end"
                    /\ UNCHANGED <<rise_time_start, rise_time_end, settling_time_end,
                                   overshoot, steady_state_error_end>>
               ELSE IF action_counter = 5
               THEN /\ steady_state_error_end' = Commit(steady_state_error_end, None)
                    /\ title' = "Skipped! You are done clicking"
                    /\ UNCHANGED <<rise_time_start, rise_time_end, settling_time_end,
                                   overshoot, steady_state_error_start>>
               ELSE UNCHANGED <<title, slots>>
            /\ action_counter' = Advance(action_counter)
       ELSE UNCHANGED <<title, slots, action_counter>>
    /\ UNCHANGED <<angle_data, red_line_data, i, event_counter, target_angle, start_time,
                   end_time, filtered_angle_data, starting_angle, metrics, stdout,
                   windows, pc>>
    /\ UNCHANGED <<lines, logger>>

-----------------------------------------------------------------------------
(* The report: what runs when plt.show() returns *)

\* list[0] raises IndexError on an empty list; Python's `or` evaluates its
\* right operand only when the left one is false
RiseTimeRaises(rts, rte) ==
    Len(rts) = 0 \/ (~IsNone(rts[1]) /\ Len(rte) = 0)

SettlingTimeRaises(ste, rts) ==
    Len(ste) = 0 \/ (~IsNone(ste[1]) /\ Len(rts) = 0)

OvershootRaises(os) == Len(os) = 0

SteadyStateRaises(sss, sse) ==
    Len(sss) = 0 \/ (~IsNone(sss[1]) /\ Len(sse) = 0)

\* the duration between the two selections, whatever their order
RiseTimeMagnitude(rts, rte) ==
    IF IsNone(rts[1]) \/ IsNone(rte[1]) THEN None ELSE Some(Abs(rte[1][1] - rts[1][1]))

RiseTimeValue(rts, rte) ==
    IF IsNone(rts[1]) \/ IsNone(rte[1]) THEN None ELSE Some(rte[1][1] - rts[1][1])

\* a missing rise start is taken as the start of the time axis
SettlingTimeFromZero(ste, rts) ==
    IF IsNone(ste[1]) THEN None
    ELSE Some(ste[1][1] - (IF IsNone(rts[1]) THEN 0 ELSE rts[1][1]))

\* the settling time also waits for the rise end
SettlingTimeNeedsRiseEnd(ste, rts) ==
    IF IsNone(ste[1]) \/ IsNone(rts[1]) \/ IsNone(rise_time_end[1]) THEN None
    ELSE Some(ste[1][1] - rts[1][1])

SettlingTimeValue(ste, rts) ==
    IF IsNone(ste[1]) \/ IsNone(rts[1]) THEN None ELSE Some(ste[1][1] - rts[1][1])

\* (abs(target - peak) / abs(start - target)) * 100, as numerator and denominator
OvershootPercent(os, target, start) ==
    IF IsNone(os[1]) THEN None
    ELSE <<Abs(target[1] - os[1][1]) * 100, Abs(start[1] - target[1])>>

\* abs((s + e) / 2 - target), as numerator and denominator
SteadyStateErrorValue(sss, sse, target) ==
    IF IsNone(sss[1]) \/ IsNone(sse[1]) THEN None
    ELSE <<Abs(sss[1][1] + sse[1][1] - 2 * target[1]), 2>>

\* the first of lines 172-175 that raises IndexError, or 0 when none does
RaisingLine ==
    IF RiseTimeRaises(rise_time_start, rise_time_end) THEN 172
    ELSE IF SettlingTimeRaises(settling_time_end, rise_time_start) THEN 173
    ELSE IF OvershootRaises(overshoot) THEN 174
    ELSE IF SteadyStateRaises(steady_state_error_start, steady_state_error_end) THEN 175
    ELSE 0

\* whether the assignment of source line n is executed
Runs(n) == RaisingLine = 0 \/ n < RaisingLine

\* the operator closes the figure: plt.show() returns and lines 169-186 run
show_returns ==
    /\ pc = "show"
    /\ rise_time_value' =
          IF Runs(172) THEN RiseTimeValue(rise_time_start, rise_time_end)
          ELSE rise_time_value
    /\ settling_time_value' =
          IF Runs(173) THEN SettlingTimeValue(settling_time_end, rise_time_start)
          ELSE settling_time_value
    /\ overshoot_percent' =
          IF Runs(174) THEN OvershootPercent(overshoot, target_angle, starting_angle)
          ELSE overshoot_percent
    /\ steady_state_error_value' =
          IF Runs(175)
          THEN SteadyStateErrorValue(steady_state_error_start, steady_state_error_end,
                                     target_angle)
          ELSE steady_state_error_value
    /\ IF RaisingLine # 0
       THEN /\ stdout' = Append(stdout, Block("header", event_counter))
            /\ pc' = "crashed"
            /\ UNCHANGED i
       ELSE /\ stdout' = Append(stdout, Block("metrics", event_counter))
            /\ i' = i + 1
            /\ pc' = "loop"
    /\ UNCHANGED <<angle_data, red_line_data, event_counter, action_counter, slots,
                   target_angle, start_time, end_time, filtered_angle_data,
                   starting_angle, title, windows>>
    /\ UNCHANGED <<lines, logger>>

-----------------------------------------------------------------------------

Next ==
    \/ for_removed
    \/ \E cmp \in NoneComparisons : for_created(cmp)
    \/ for_exit
    \/ \E event \in Clicks : onclick(event)
    \/ \E key \in Keys : on_key(key)
    \/ show_returns

Spec == Init /\ [][Next]_vars

\* One window, over angles a few quanta apart -----------------------------

MaxSpan == 11

\* a target, and starting angles from MaxSpan quanta below it to MaxSpan
\* quanta above it, with the two ends of the steering range
WindowTargets == {Degrees(90)}

WindowStarts ==
    {Degrees(90) + k : k \in (0 - MaxSpan) .. MaxSpan}
        \cup {Degrees(ANGLE_MIN), Degrees(ANGLE_MAX)}

\* clicks at two times and at two heights
WindowClicks ==
    {[xdata |-> Some(x), ydata |-> Some(y)] : x \in {1, 2}, y \in {Degrees(90), Degrees(95)}}
        \cup {OutsideClick}

\* the red line is created at time 0 and removed at time 1; one sample at time 0
InitWindow ==
    /\ \E start \in WindowStarts, target \in WindowTargets :
          AnalysisStart(WithIndex(<<[Timestamp |-> 0, Current_Angle |-> start]>>),
                        <<Event(0, Some(target), "Created"), Event(1, None, "Removed")>>)
    /\ LoggerStart

NextWindow ==
    \/ for_removed
    \/ \E cmp \in NoneComparisons : for_created(cmp)
    \/ for_exit
    \/ \E event \in WindowClicks : onclick(event)
    \/ \E key \in Keys : on_key(key)
    \/ show_returns

SpecWindow == InitWindow /\ [][NextWindow]_vars

\* AngleGraphic.py: the keyboard of the logger -----------------------------

MaxBuffer == 3

MaxRows == 3

\* pygame key codes
KeyCodes == [RETURN |-> 13, Q |-> 113, SPACE |-> 32]

LoggerDigits == {0, 1, 4}

\* the digit keys have the codes 48..57
LoggerKeys ==
    {48 + d : d \in LoggerDigits} \cup {KeyCodes.RETURN, KeyCodes.Q, KeyCodes.SPACE}

\* float() of a string of digits raises ValueError on the empty string only
FloatRaises(buffer) == Len(buffer) = 0

\* float() of a string of digits, most significant digit first
RECURSIVE Float(_)
Float(buffer) ==
    IF Len(buffer) = 0 THEN 0
    ELSE 10 * Float(SubSeq(buffer, 1, Len(buffer) - 1)) + buffer[Len(buffer)]

\* no lower end of the range
IsValidAngleNoFloor(angle) == angle <= ANGLE_MAX

\* ANGLE_MIN <= angle <= ANGLE_MAX
IsValidAngle(angle) == ANGLE_MIN <= angle /\ angle <= ANGLE_MAX

\* Rows are stamped with datetime.now(); the model stamps a row with the
\* number of rows written before it.
on_key_down(key) ==
    /\ running
    /\ Len(red_line_file) < MaxRows
    /\ IF key = KeyCodes.Q
       THEN /\ running' = FALSE
            /\ UNCHANGED <<red_line_angle, input_buffer, red_line_file>>
       ELSE IF key = KeyCodes.RETURN
       THEN /\ input_buffer' = << >>
            /\ IF FloatRaises(input_buffer)
               THEN UNCHANGED <<red_line_angle, red_line_file>>
               ELSE IF IsValidAngle(Float(input_buffer))
               THEN /\ red_line_angle' = Some(Float(input_buffer))
                    /\ red_line_file' =
                          Append(red_line_file,
                                 Event(Len(red_line_file), Some(Float(input_buffer)),
                                       "Created"))
               ELSE IF Float(input_buffer) = 0
               THEN /\ red_line_angle' = None
                    /\ red_line_file' =
                          Append(red_line_file, Event(Len(red_line_file), None, "Removed"))
               ELSE UNCHANGED <<red_line_angle, red_line_file>>
            /\ UNCHANGED running
       ELSE IF key \in 48 .. 57
       THEN /\ Len(input_buffer) < MaxBuffer
            /\ input_buffer' = Append(input_buffer, key - 48)
            /\ UNCHANGED <<red_line_angle, red_line_file, running>>
       ELSE UNCHANGED logger
    /\ UNCHANGED analysis

\* the logger runs on its own; Analysis.py is not started
InitLogger ==
    /\ LoggerStart
    /\ AnalysisStart(<< >>, << >>)

NextLogger == \E key \in LoggerKeys : on_key_down(key)

SpecLogger == InitLogger /\ [][NextLogger]_vars

-----------------------------------------------------------------------------
(* Properties of the event loop *)

NumEvents == Len(red_line_data)

CreatedRows == {k \in 1 .. NumEvents : red_line_data[k].Event_Type = "Created"}

LastBlock == stdout[Len(stdout)]

\* the row indices of a window
Indices(rows) == {rows[k].idx : k \in 1 .. Len(rows)}

\* the samples with lo <= t, and t < hi
SamplesBetween(lo, hi) ==
    {angle_data[k].idx : k \in {m \in 1 .. Len(angle_data) :
        lo <= angle_data[m].Timestamp /\ angle_data[m].Timestamp < hi}}

\* C1: when the loop has run to its end, stdout holds exactly one block per
\* 'Created' row of the log, each a skip diagnostic or a metrics block, the
\* b-th block being the one of the b-th 'Created' row; 'Removed' rows add none.
C1_OneBlockPerCreated ==
    pc = "done" =>
        /\ Len(stdout) = Cardinality(CreatedRows)
        /\ \A b \in 1 .. Len(stdout) :
              /\ stdout[b].kind \in {"skip", "metrics"}
              /\ stdout[b].ordinal = b

\* a finished run whose log has a 'Removed' row and whose report has both a
\* skip diagnostic and a metrics block
C1_Witness ==
    /\ pc = "done"
    /\ \E k \in 1 .. NumEvents : red_line_data[k].Event_Type = "Removed"
    /\ \E b \in 1 .. Len(stdout) : stdout[b].kind = "skip"
    /\ \E b \in 1 .. Len(stdout) : stdout[b].kind = "metrics"

\* the iteration of the last row has been entered, and the row is 'Created'
LastCreatedEntered ==
    /\ NumEvents > 0
    /\ red_line_data[NumEvents].Event_Type = "Created"
    /\ \/ i = NumEvents
       \/ i = NumEvents - 1 /\ pc \in {"show", "crashed"}

\* the samples at or after the last row's timestamp
OpenEndedRows ==
    LET AtOrAfter(r) == r.Timestamp >= red_line_data[NumEvents].Timestamp
    IN  SelectSeq(angle_data, AtOrAfter)

\* C2: when the last row of the log is 'Created' and some sample lies at or
\* after its timestamp, its window holds every such sample, and the run
\* neither faults on it nor reports it as skipped.
C2_LastWindowOpenEnded ==
    (LastCreatedEntered /\ OpenEndedRows # << >>) =>
        /\ filtered_angle_data = OpenEndedRows
        /\ ~(pc = "crashed" /\ i = NumEvents - 1 /\ Len(windows) < event_counter)
        /\ \A b \in 1 .. Len(stdout) : stdout[b] # SkipBlock(event_counter)

\* C3: for every 'Created' row that is followed by another row, the window
\* holds exactly the samples with start <= t < end (end the next row's
\* timestamp, so a sample at end is left out), as the rows of angle_data in
\* their original order; and no sample is in two windows.
C3_HalfOpenWindows ==
    /\ \A w \in 1 .. Len(windows) :
          LET e == windows[w].event + 1
              rows == windows[w].rows
          IN  e < NumEvents =>
                /\ Indices(rows) = SamplesBetween(red_line_data[e].Timestamp,
                                                  red_line_data[e + 1].Timestamp)
                /\ \A k \in 1 .. Len(rows) : rows[k] = angle_data[rows[k].idx + 1]
                /\ \A k \in 1 .. Len(rows) - 1 : rows[k].idx < rows[k + 1].idx
                /\ \A k \in 1 .. Len(rows) :
                      rows[k].Timestamp # red_line_data[e + 1].Timestamp
    /\ \A v, w \in 1 .. Len(windows) :
          v # w => Indices(windows[v].rows) \cap Indices(windows[w].rows) = {}

\* two windows have been cut, both non-empty, and a sample lies exactly at
\* the end of the first
C3_Witness ==
    /\ Len(windows) >= 2
    /\ windows[1].rows # << >>
    /\ windows[2].rows # << >>
    /\ \E k \in 1 .. Len(angle_data) :
          angle_data[k].Timestamp = red_line_data[windows[1].event + 2].Timestamp

\* every variable a 'Created' iteration writes, but the loop index
WindowState ==
    <<event_counter, action_counter, slots, target_angle, start_time, end_time,
      filtered_angle_data, starting_angle, metrics, title, stdout, windows>>

\* the samples from a 'Removed' row on, up to the next 'Created' row if any
AfterRemoved(r) ==
    LET later == {j \in CreatedRows : j > r}
        t == red_line_data[r].Timestamp
    IN  {angle_data[k].idx : k \in {m \in 1 .. Len(angle_data) :
            /\ t <= angle_data[m].Timestamp
            /\ \A j \in later : angle_data[m].Timestamp < red_line_data[j].Timestamp}}

\* C4: the iteration on a 'Removed' row starts nothing: it changes no window
\* state, prints nothing and cuts no window. Its timestamp ends the window
\* of the 'Created' row just before it: no sample at or after it is in that
\* window, and the samples from it up to the next 'Created' row are in no
\* window.
C4_RemovedOnlyEndsWindow ==
    /\ [][(pc = "loop" /\ i < NumEvents /\ red_line_data[i + 1].Event_Type = "Removed")
            => UNCHANGED <<WindowState, pc>>]_vars
    /\ [](\A w \in 1 .. Len(windows) :
            /\ red_line_data[windows[w].event + 1].Event_Type = "Created"
            /\ \A r \in 1 .. NumEvents :
                  red_line_data[r].Event_Type = "Removed" =>
                    /\ Indices(windows[w].rows) \cap AfterRemoved(r) = {}
                    /\ (r = windows[w].event + 2) =>
                          \A k \in 1 .. Len(windows[w].rows) :
                              windows[w].rows[k].Timestamp < red_line_data[r].Timestamp)

\* a 'Created' row with a non-empty window, then a 'Removed' row with a
\* sample at or after it, then a 'Created' row, all three iterated
C4_Witness ==
    /\ NumEvents = 3
    /\ i = 3
    /\ red_line_data[1].Event_Type = "Created"
    /\ red_line_data[2].Event_Type = "Removed"
    /\ red_line_data[3].Event_Type = "Created"
    /\ windows[1].rows # << >>
    /\ AfterRemoved(2) # {}

\* C5: a 'Created' row whose filtered sample set is empty prints the skip
\* diagnostic with its own ordinal and nothing else, never opens the figure
\* (no title, no slot, no metric is written), and the loop goes on with the
\* next row.
C5_EmptyWindowSkipped ==
    /\ [][(/\ pc = "loop"
           /\ i < NumEvents
           /\ red_line_data[i + 1].Event_Type = "Created"
           /\ pc' # "crashed"
           /\ filtered_angle_data' = << >>)
            => /\ stdout' = Append(stdout, [kind |-> "skip",
                                            ordinal |-> event_counter + 1])
               /\ pc' = "loop"
               /\ i' = i + 1
               /\ UNCHANGED <<metrics, title, starting_angle>>]_vars
    /\ [](pc = "show" => filtered_angle_data # << >>)
    /\ [](\A w \in 1 .. Len(windows) :
            (windows[w].rows = << >> /\ Len(stdout) >= w) =>
                stdout[w] = [kind |-> "skip", ordinal |-> w])

\* the first 'Created' row was skipped as empty and a later one got its
\* metrics block
C5_Witness ==
    /\ Len(stdout) >= 2
    /\ stdout[1].kind = "skip"
    /\ stdout[2].kind = "metrics"
    /\ windows[1].rows = << >>

-----------------------------------------------------------------------------
(* Properties of the interaction *)

SlotIndex == 1 .. 6

Populated(j) == Len(slots[j]) >= 1

AllPopulated == \A j \in SlotIndex : Populated(j)

\* C6: once plt.show() has returned for a window and lines 169-186 have run
\* (its header or its metrics block is printed), each of the six slots holds
\* exactly one entry: the figure cannot be closed, and the metrics cannot be
\* computed, while a slot is unpopulated.
C6_SixSlotsBeforeMetrics ==
    (/\ Len(stdout) > 0
     /\ LastBlock.ordinal = event_counter
     /\ LastBlock.kind \in {"header", "metrics"})
        => \A j \in SlotIndex : Len(slots[j]) = 1

\* the slot of position p gains the entry v, the counter goes from p to p + 1,
\* the other five slots keep their value
CommitsOne(p, v) ==
    /\ action_counter' = p + 1
    /\ slots'[p + 1] = Append(slots[p + 1], v)
    /\ \A j \in SlotIndex : j # p + 1 => slots'[j] = slots[j]

\* C7: at every position p in 0..5, a mouse click appends its x coordinate
\* (p in 0..2) or its y coordinate (p in 3..5) to the slot of p, a press of
\* 'x' appends None to it, and either moves the counter to p + 1 and leaves
\* the other five slots as they were.
C7_SelectAndSkipCommitOneSlot ==
    [][\A p \in 0 .. 5 :
          (pc = "show" /\ action_counter = p) =>
            /\ \A e \in Clicks :
                  onclick(e) => CommitsOne(p, IF p \in 0 .. 2 THEN e.xdata ELSE e.ydata)
            /\ on_key("x") => CommitsOne(p, None)]_vars

\* six actions done, clicks and skips mixed: a click stored an x coordinate,
\* another a y coordinate, and the last action was a skip
C7_Witness ==
    /\ pc = "show"
    /\ action_counter = 6
    /\ rise_time_start = <<Some(1)>>
    /\ rise_time_end = <<None>>
    /\ overshoot = <<Some(Degrees(95))>>
    /\ title = "Skipped! You are done clicking"

\* the four values lines 172-175 compute from the slots as they are now
ReportedMetrics ==
    <<RiseTimeValue(rise_time_start, rise_time_end),
      SettlingTimeValue(settling_time_end, rise_time_start),
      OvershootPercent(overshoot, target_angle, starting_angle),
      SteadyStateErrorValue(steady_state_error_start, steady_state_error_end, target_angle)>>

\* C8: once the action of position 5 is done (all six slots hold an entry),
\* a further click or key press changes none of the six slots, nor the four
\* values the report will print for the window.
C8_TerminalIgnoresActions ==
    [][(/\ pc = "show"
        /\ AllPopulated
        /\ \/ \E e \in Clicks : onclick(e)
           \/ \E k \in Keys : on_key(k))
          => /\ slots' = slots
             /\ ReportedMetrics' = ReportedMetrics]_vars

\* a seventh action has been made on a figure whose six slots were full
C8_Witness ==
    /\ pc = "show"
    /\ action_counter = 7
    /\ AllPopulated
    /\ \E j \in SlotIndex : slots[j] = <<None>>
    /\ \E j \in SlotIndex : slots[j] # <<None>>

\* C9 (as claimed): while a figure is shown the counter is within 0..6.
C9_PositionWithinSix == pc = "show" => action_counter \in 0 .. 6

\* C9 (amended): while a figure is shown the counter is a natural number,
\* and every click and every press of 'x' adds exactly one to it, at every
\* value of the counter: it is the number of actions made on the figure and
\* has no upper limit at 6.
C9_CounterCountsActions ==
    /\ [](pc = "show" => action_counter \in Nat)
    /\ [][(pc = "show" /\ ((\E e \in Clicks : onclick(e)) \/ on_key("x")))
            => action_counter' = action_counter + 1]_vars

\* the counter has passed 6
C9_Witness == pc = "show" /\ action_counter = 7

Min(a, b) == IF a <= b THEN a ELSE b

\* C10: in every state, slot j (0-based) holds exactly one entry if j is
\* below min(action_counter, 6) and none otherwise; and as long as the loop
\* stays on the same 'Created' row, a slot that holds an entry keeps it.
C10_SlotsInPositionOrder ==
    /\ [](\A j \in 0 .. 5 :
            Len(slots[j + 1]) = IF j < Min(action_counter, 6) THEN 1 ELSE 0)
    /\ [][event_counter' = event_counter =>
            \A j \in SlotIndex :
                Populated(j) => (Len(slots'[j]) >= 1 /\ slots'[j][1] = slots[j][1])]_vars

\* three actions done: the first three slots are committed, the others not
C10_Witness ==
    /\ pc = "show"
    /\ action_counter = 3
    /\ settling_time_end # << >>
    /\ overshoot = << >>
    /\ rise_time_start = <<None>>
    /\ rise_time_end = <<Some(1)>>

\* C11: every step that begins a window (the ordinal changes) leaves the
\* counter at 0 and the six slots empty, whatever the counter and the slots
\* were before it; and while a figure is shown no slot holds more than the one
\* entry committed on that figure, so the entry [0] that lines 172-175 read
\* was committed in the window being reported.
C11_WindowStartsFresh ==
    /\ [](pc = "show" => \A j \in SlotIndex : Len(slots[j]) <= 1)
    /\ [][event_counter' # event_counter =>
            /\ action_counter' = 0
            /\ \A j \in SlotIndex : slots'[j] = << >>]_vars

\* the second window begins after a first one that took values and was
\* reported
C11_Witness ==
    /\ pc = "show"
    /\ event_counter = 2
    /\ action_counter = 0
    /\ \A j \in SlotIndex : slots[j] = << >>
    /\ Len(stdout) = 1
    /\ stdout[1].kind = "metrics"
    /\ stdout[1].ordinal = 1
    /\ rise_time_value # None
    /\ steady_state_error_value # None

\* the window whose figure was just closed has been reported in full
Reported ==
    /\ Len(stdout) > 0
    /\ LastBlock.kind = "metrics"
    /\ LastBlock.ordinal = event_counter
    /\ pc \in {"loop", "done"}

\* C12: when the figure is closed with all six slots populated, each of the
\* four values computed is None if one of the slots it needs holds None:
\* the rise time needs the rise start and the rise end, the settling time the
\* rise start and the settling end, the overshoot the peak, the steady-state
\* error the two steady-state slots.
C12_AbsencePropagates ==
    [][(show_returns /\ AllPopulated) =>
          /\ (IsNone(rise_time_start[1]) \/ IsNone(rise_time_end[1]))
                => rise_time_value' = None
          /\ (IsNone(rise_time_start[1]) \/ IsNone(settling_time_end[1]))
                => settling_time_value' = None
          /\ IsNone(overshoot[1]) => overshoot_percent' = None
          /\ (IsNone(steady_state_error_start[1]) \/ IsNone(steady_state_error_end[1]))
                => steady_state_error_value' = None]_vars

\* reported: the rise start was skipped while the rise end and the settling
\* end were clicked, the peak was skipped, one steady-state slot was skipped
C12_Witness ==
    /\ Reported
    /\ rise_time_start = <<None>>
    /\ rise_time_end = <<Some(1)>>
    /\ settling_time_end = <<Some(1)>>
    /\ overshoot = <<None>>
    /\ steady_state_error_start = <<Some(Degrees(95))>>
    /\ steady_state_error_end = <<None>>
    /\ rise_time_value = None
    /\ settling_time_value = None
    /\ overshoot_percent = None
    /\ steady_state_error_value = None

\* C13: when the figure is closed with all six slots populated, each of the
\* four values is computed (not None) as soon as the slots it needs hold a
\* value, whatever the other slots hold, and the report is printed: the
\* settling time does not need the rise end, the overshoot and the
\* steady-state error need none of the three time slots.
C13_MetricsIndependent ==
    [][(show_returns /\ AllPopulated) =>
          /\ pc' # "crashed"
          /\ (~IsNone(rise_time_start[1]) /\ ~IsNone(rise_time_end[1]))
                => rise_time_value' # None
          /\ (~IsNone(rise_time_start[1]) /\ ~IsNone(settling_time_end[1]))
                => settling_time_value' # None
          /\ ~IsNone(overshoot[1]) => overshoot_percent' # None
          /\ (~IsNone(steady_state_error_start[1]) /\ ~IsNone(steady_state_error_end[1]))
                => steady_state_error_value' # None]_vars

\* reported: the rise end was skipped, the settling time is a number all the
\* same, and so are the overshoot and the steady-state error
C13_Witness ==
    /\ Reported
    /\ rise_time_start = <<Some(1)>>
    /\ rise_time_end = <<None>>
    /\ settling_time_end = <<Some(1)>>
    /\ rise_time_value = None
    /\ settling_time_value = Some(0)
    /\ overshoot_percent # None
    /\ steady_state_error_value # None

\* C14: a window whose starting angle equals its target and whose peak was
\* clicked is reported with the overshoot None: line 174 does not divide by
\* the zero span.
C14_ZeroSpanOvershootAbsent ==
    (/\ Reported
     /\ starting_angle = target_angle
     /\ ~IsNone(overshoot[1]))
        => overshoot_percent = None

\* C15: at every position p in 0..5 a mouse click, wherever it lands, leaves
\* a value other than None in the slot of p: a slot holds None only after a
\* press of 'x'.
C15_SelectNeverAbsent ==
    [][\A p \in 0 .. 5 :
          (pc = "show" /\ action_counter = p) =>
              \A e \in Clicks : onclick(e) => ~IsNone(slots'[p + 1][1])]_vars

\* the span of the window shown, in quanta
Span == AngleDiff(starting_angle[1], target_angle[1])

\* C16 (as claimed): on every figure, for a target above the starting angle
\* the lines satisfy ten < ninety < target and below < target < above, for a
\* target below it the mirrored strict inequalities, and for a target equal
\* to it all four lines equal the target.
C16_LinesStrictlyOrdered ==
    pc = "show" =>
        /\ target_angle[1] > starting_angle[1] =>
              /\ tenperline[1] < ninperline[1]
              /\ ninperline[1] < target_angle[1]
              /\ five_percent_below[1] < target_angle[1]
              /\ target_angle[1] < five_percent_above[1]
        /\ target_angle[1] < starting_angle[1] =>
              /\ tenperline[1] > ninperline[1]
              /\ ninperline[1] > target_angle[1]
              /\ five_percent_below[1] > target_angle[1]
              /\ target_angle[1] > five_percent_above[1]
        /\ target_angle[1] = starting_angle[1] =>
              /\ tenperline = target_angle
              /\ ninperline = target_angle
              /\ five_percent_below = target_angle
              /\ five_percent_above = target_angle

\* C16 (amended): on every figure, for a target above the starting angle
\* ten < ninety <= target and below <= target <= above, for a target below
\* it the mirrored inequalities, for a target equal to it all four lines
\* equal the target; and the inequalities are all strict as soon as the span
\* exceeds ten quanta.
C16_LinesOrdered ==
    pc = "show" =>
        /\ target_angle[1] > starting_angle[1] =>
              /\ tenperline[1] < ninperline[1]
              /\ ninperline[1] <= target_angle[1]
              /\ five_percent_below[1] <= target_angle[1]
              /\ target_angle[1] <= five_percent_above[1]
              /\ Span > 10 =>
                    /\ ninperline[1] < target_angle[1]
                    /\ five_percent_below[1] < target_angle[1]
                    /\ target_angle[1] < five_percent_above[1]
        /\ target_angle[1] < starting_angle[1] =>
              /\ tenperline[1] > ninperline[1]
              /\ ninperline[1] >= target_angle[1]
              /\ five_percent_below[1] >= target_angle[1]
              /\ target_angle[1] >= five_percent_above[1]
              /\ Span > 10 =>
                    /\ ninperline[1] > target_angle[1]
                    /\ five_percent_below[1] > target_angle[1]
                    /\ target_angle[1] > five_percent_above[1]
        /\ target_angle[1] = starting_angle[1] =>
              /\ tenperline = target_angle
              /\ ninperline = target_angle
              /\ five_percent_below = target_angle
              /\ five_percent_above = target_angle

\* a figure whose starting angle is one quantum above the target: the
\* ten-percent line is the starting angle, the other three lines are the
\* target
C16_Witness ==
    /\ pc = "show"
    /\ starting_angle[1] = target_angle[1] + 1
    /\ tenperline = starting_angle
    /\ ninperline = target_angle
    /\ five_percent_below = target_angle
    /\ five_percent_above = target_angle

\* C17: when the figure is closed with all six slots populated, the rise
\* time is the rise end minus the rise start when both were clicked, and the
\* settling time is the settling end minus the rise start when both were
\* clicked, with their sign: the selections are neither reordered nor
\* clamped.
C17_SignedDurations ==
    [][(show_returns /\ AllPopulated) =>
          /\ (~IsNone(rise_time_start[1]) /\ ~IsNone(rise_time_end[1]))
                => rise_time_value' = Some(rise_time_end[1][1] - rise_time_start[1][1])
          /\ (~IsNone(rise_time_start[1]) /\ ~IsNone(settling_time_end[1]))
                => settling_time_value' =
                      Some(settling_time_end[1][1] - rise_time_start[1][1])]_vars

\* reported: the rise start was clicked at 2, the rise end and the settling
\* end at 1, and both durations are -1
C17_Witness ==
    /\ Reported
    /\ rise_time_start = <<Some(2)>>
    /\ rise_time_end = <<Some(1)>>
    /\ settling_time_end = <<Some(1)>>
    /\ rise_time_value = Some(0 - 1)
    /\ settling_time_value = Some(0 - 1)

\* the 'Created' rows among the first n rows of the log
CreatedUpTo(n) == {k \in CreatedRows : k <= n}

\* C18: the b-th block printed carries the ordinal b; while the figure of a
\* window is shown (the only time a click or a key press is taken) the
\* window is the next one in the log, its ordinal is the number of 'Created'
\* rows up to its own, and the blocks of all the windows before it are
\* printed in full; a run that reaches the end of the log has printed as many
\* blocks as the log has 'Created' rows.
C18_OneWindowAtATime ==
    /\ [](\A b \in 1 .. Len(stdout) : stdout[b].ordinal = b)
    /\ [](pc = "show" =>
            /\ red_line_data[i + 1].Event_Type = "Created"
            /\ event_counter = Cardinality(CreatedUpTo(i + 1))
            /\ Len(stdout) = event_counter - 1
            /\ \A b \in 1 .. Len(stdout) : stdout[b].kind \in {"skip", "metrics"})
    /\ [](pc = "done" => Len(stdout) = Cardinality(CreatedRows))
    /\ [][((\E e \in Clicks : onclick(e)) \/ (\E k \in Keys : on_key(k)))
            => (pc = "show" /\ stdout' = stdout /\ event_counter' = event_counter)]_vars

\* the run is over: two windows were reported, with the ordinals 1 and 2,
\* and the log holds a 'Removed' row as well
C18_Witness ==
    /\ pc = "done"
    /\ NumEvents = 3
    /\ Cardinality(CreatedRows) = 2
    /\ Len(stdout) = 2
    /\ stdout[1] = Block("metrics", 1)
    /\ stdout[2] = Block("metrics", 2)

\* C19: while a figure is shown, a press of a key other than 'x' leaves the
\* counter, the six slots and the title as they were, at every value of the
\* counter; every mouse click and every press of 'x' changes the counter; and
\* a step that changes the counter or a slot while the figure stays open is a
\* mouse click or a press of 'x'.
C19_OnlySelectAndSkipAct ==
    [][pc = "show" =>
          /\ \A k \in Keys \ {"x"} :
                on_key(k) => /\ action_counter' = action_counter
                             /\ slots' = slots
                             /\ title' = title
          /\ ((\E e \in Clicks : onclick(e)) \/ on_key("x"))
                => action_counter' # action_counter
          /\ (pc' = "show" /\ (action_counter' # action_counter \/ slots' # slots))
                => ((\E e \in Clicks : onclick(e)) \/ on_key("x"))]_vars

\* a figure on which 'x' was pressed once and the mouse clicked once: the
\* counter is 2, whatever other keys were pressed in between
C19_Witness ==
    /\ pc = "show"
    /\ action_counter = 2
    /\ rise_time_start = <<None>>
    /\ rise_time_end = <<Some(1)>>
    /\ settling_time_end = << >>
    /\ title = "Click on end settling time"

\* the last row written to red_line_events.csv
LastRow == red_line_file[Len(red_line_file)]

\* C20: in the logger, every 'Created' row carries an angle within
\* [ANGLE_MIN, ANGLE_MAX] and every 'Removed' row carries none;
\* red_line_angle is None when no row is written or the last row is
\* 'Removed', and is the angle of the last row otherwise; every RETURN leaves
\* the buffer empty, and a RETURN on an empty buffer or on a number that is
\* neither 0 nor within the range writes no row and leaves red_line_angle as
\* it was.
C20_LoggerRows ==
    /\ [](\A k \in 1 .. Len(red_line_file) :
            /\ red_line_file[k].Event_Type \in {"Created", "Removed"}
            /\ red_line_file[k].Event_Type = "Created" =>
                  /\ ~IsNone(red_line_file[k].Red_Line_Angle)
                  /\ red_line_file[k].Red_Line_Angle[1] \in ANGLE_MIN .. ANGLE_MAX
            /\ red_line_file[k].Event_Type = "Removed" =>
                  IsNone(red_line_file[k].Red_Line_Angle))
    /\ [](red_line_angle =
            IF Len(red_line_file) = 0 \/ LastRow.Event_Type = "Removed" THEN None
            ELSE LastRow.Red_Line_Angle)
    /\ [][on_key_down(KeyCodes.RETURN) =>
            /\ input_buffer' = << >>
            /\ (\/ Len(input_buffer) = 0
                \/ (Float(input_buffer) # 0
                      /\ Float(input_buffer) \notin ANGLE_MIN .. ANGLE_MAX))
                  => (red_line_file' = red_line_file /\ red_line_angle' = red_line_angle)]_vars

\* 140 was entered, then 0, then 141: a 'Created' row, a 'Removed' row, no
\* third row, no red line, and 1 typed since
C20_Witness ==
    /\ running
    /\ red_line_file = <<Event(0, Some(ANGLE_MAX), "Created"), Event(1, None, "Removed")>>
    /\ red_line_angle = None
    /\ input_buffer = <<1>>

====
